---- MODULE Spec2Model ----
(***************************************************************************)
(* Context-guided BERT encoder (code/model/CGBERT.py).                     *)
(*                                                                         *)
(* Tensors are nested sequences (1-based): a tensor of shape (B, T, H) is  *)
(* a sequence of B sequences of T sequences of H numbers.  Numbers are     *)
(* fixed-point: the integer n stands for the real n / ONE, and every       *)
(* product, quotient and transcendental function is rounded to the nearest *)
(* representable number, as a floating-point format rounds.                *)
(***************************************************************************)
EXTENDS Integers, Sequences, FiniteSets, TLC

\* ------------------------------------------------------------------ bounds
MaxBatch == 2
MaxSeqLen == 2
MaxSeed == 2

\* The unit of the number format: the integer ONE stands for 1.0.
ONE == 4

\* ------------------------------------------------------------- arithmetic
\* a / b rounded to the nearest integer, halves away from zero (b > 0).
RDiv(a, b) == IF a >= 0 THEN (2 * a + b) \div (2 * b)
              ELSE -((2 * (-a) + b) \div (2 * b))

FMul(a, b) == RDiv(a * b, ONE)
FDiv(a, b) == RDiv(a * ONE, b)

Abs(a) == IF a >= 0 THEN a ELSE -a

\* Forces a function over 1..n into a tuple, so that its elements are
\* computed once.
Tup(f) == f \o <<>>

RECURSIVE Sum(_)
Sum(s) == IF Len(s) = 0 THEN 0 ELSE Head(s) + Sum(Tail(s))

RECURSIVE MaxOf(_)
MaxOf(s) == IF Len(s) = 1 THEN s[1]
            ELSE LET m == MaxOf(Tail(s)) IN IF s[1] >= m THEN s[1] ELSE m

\* floor of the square root of the natural number n
ISqrt(n) == CHOOSE r \in 0..n : r * r <= n /\ (r + 1) * (r + 1) > n

\* math.sqrt / torch.sqrt: the square root of a (a >= 0), rounded
FSqrt(a) == LET n == a * ONE
                r == ISqrt(n)
            IN  IF n - r * r > r THEN r + 1 ELSE r

\* torch.erf, rounded to the format (odd, saturating at 1.0)
Erf(x) == LET k == Abs(x)
              v == IF k <= 2 THEN k ELSE IF k <= 4 THEN 3 ELSE ONE
          IN  IF x >= 0 THEN v ELSE -v

\* nn.Tanh, rounded to the format (odd, saturating at 1.0)
Tanh(x) == LET k == Abs(x)
               v == IF k <= 2 THEN k ELSE IF k <= 5 THEN 3 ELSE ONE
           IN  IF x >= 0 THEN v ELSE -v

\* exp of a number d <= 0, rounded to the format (underflows to 0)
Exp(d) == IF d = 0 THEN ONE
          ELSE IF d = -1 THEN 3
          ELSE IF d >= -3 THEN 2
          ELSE IF d >= -8 THEN 1
          ELSE 0

\* nn.Sigmoid: 1 / (1 + exp(-x)) rounded to the format.  As in floating
\* point, 1 + exp(-x) rounds to 1 for large x and exp(-x) overflows for very
\* negative x, so the result saturates at exactly 1.0 and 0.0.
Sigmoid(x) == IF x >= 2 * ONE THEN ONE
              ELSE IF x >= 3 THEN 3
              ELSE IF x >= -2 THEN 2
              ELSE IF x > -(2 * ONE) THEN 1
              ELSE 0

\* ------------------------------------------------------------ leaf modules
\* nn.Linear.forward on one vector: x W^T + b
Dot(w, x) == RDiv(Sum(Tup([i \in 1..Len(w) |-> w[i] * x[i]])), ONE)

Linear(lin, x) == Tup([o \in 1..Len(lin.weight) |-> Dot(lin.weight[o], x) + lin.bias[o]])

\* nn.Linear(..., bias=False).forward on one vector
LinearNoBias(lin, x) == Tup([o \in 1..Len(lin.weight) |-> Dot(lin.weight[o], x)])

\* A map over the vectors of a (B, T, H) tensor, and of a (B, heads, T, d) one.
Map3(F(_), x) == Tup([b \in 1..Len(x) |-> Tup([t \in 1..Len(x[b]) |-> F(x[b][t])])])

Map4(F(_), x) == Tup([b \in 1..Len(x) |-> Map3(F, x[b])])

\* nn.Embedding.forward on one index: rows are numbered from 0, and an index
\* outside 0..num_embeddings-1 (negative ones included) raises IndexError.
IndexInRange(weight, id) == id \in 0..(Len(weight) - 1)

Embedding(weight, id) == weight[id + 1]

\* The generator's keep/drop decision for element e of a dropout call made in
\* generator state r.
RngStates == 2

Keep(r, e) == (r + e) % RngStates # 0

\* nn.Dropout.forward on the number x at element e: the identity in eval mode,
\* and in training mode a drop to 0 or a scaling by 1 / (1 - p).
DropoutAlways(x, p, training, r, e) == IF Keep(r, e) THEN FDiv(x, ONE - p) ELSE 0

Dropout(x, p, training, r, e) == IF training /\ p > 0
                                 THEN (IF Keep(r, e) THEN FDiv(x, ONE - p) ELSE 0)
                                 ELSE x

Dropout3(x, p, training, r) ==
    Tup([b \in 1..Len(x) |-> Tup([t \in 1..Len(x[b]) |->
        Tup([i \in 1..Len(x[b][t]) |-> Dropout(x[b][t][i], p, training, r, b + t + i)])])])

\* gelu, lines 16-21
gelu(x) == FMul(FMul(x, ONE \div 2), ONE + Erf(FDiv(x, FSqrt(2 * ONE))))

\* BERTIntermediate.forward on one position
BERTIntermediate(p, hidden_states) ==
    LET dense == Linear(p.dense, hidden_states)
    IN  Tup([i \in 1..Len(dense) |-> gelu(dense[i])])

\* 1e-12 underflows in this format; it is kept as the smallest positive number.
variance_epsilon == 1

\* BERTLayerNorm.forward on one position
BERTLayerNorm(ln, x) ==
    LET n == Len(x)
        u == RDiv(Sum(x), n)
        d == Tup([i \in 1..n |-> x[i] - u])
        s == RDiv(Sum(Tup([i \in 1..n |-> FMul(d[i], d[i])])), n)
        den == FSqrt(s + variance_epsilon)
    IN  Tup([i \in 1..n |-> FMul(ln.gamma[i], FDiv(d[i], den)) + ln.beta[i]])

VAdd(x, y) == Tup([i \in 1..Len(x) |-> x[i] + y[i]])

Add3(x, y) == Tup([b \in 1..Len(x) |-> Tup([t \in 1..Len(x[b]) |-> VAdd(x[b][t], y[b][t])])])

\* torch.cat([x, y], dim=-1)
Cat3(x, y) == Tup([b \in 1..Len(x) |-> Tup([t \in 1..Len(x[b]) |-> x[b][t] \o y[b][t]])])

\* BERTEmbeddings.forward: every index it looks up is in range
EmbeddingsInRange(emb, input_ids, token_type_ids) ==
    \A b \in 1..Len(input_ids) : \A t \in 1..Len(input_ids[b]) :
        /\ IndexInRange(emb.word_embeddings, input_ids[b][t])
        /\ IndexInRange(emb.position_embeddings, t - 1)
        /\ IndexInRange(emb.token_type_embeddings, token_type_ids[b][t])

\* BERTEmbeddings.forward
BERTEmbeddings(emb, p, input_ids, token_type_ids, training, r) ==
    LET embeddings == Tup([b \in 1..Len(input_ids) |-> Tup([t \in 1..Len(input_ids[b]) |->
            BERTLayerNorm(emb.LayerNorm,
                VAdd(VAdd(Embedding(emb.word_embeddings, input_ids[b][t]),
                          Embedding(emb.position_embeddings, t - 1)),
                     Embedding(emb.token_type_embeddings, token_type_ids[b][t])))])])
    IN  Dropout3(embeddings, p, training, r)

\* BERTSelfOutput.forward and BERTOutput.forward (the same code)
BERTSelfOutput(p, hidden_states, input_tensor, prob, training, r) ==
    LET dense == Map3(LAMBDA v : Linear(p.dense, v), hidden_states)
        dropped == Dropout3(dense, prob, training, r)
    IN  Map3(LAMBDA v : BERTLayerNorm(p.LayerNorm, v), Add3(dropped, input_tensor))

BERTOutput(p, hidden_states, input_tensor, prob, training, r) ==
    LET dense == Map3(LAMBDA v : Linear(p.dense, v), hidden_states)
        dropped == Dropout3(dense, prob, training, r)
    IN  Map3(LAMBDA v : BERTLayerNorm(p.LayerNorm, v), Add3(dropped, input_tensor))

\* ----------------------------------------------------------------- pooler
\* Pooling variants: the first attended position instead of position 0, and
\* no selection of a position at all.
ContextBERTPoolerFirstAttended(p, hidden_states, attention_mask) ==
    Tup([b \in 1..Len(hidden_states) |->
        LET attended == {t \in 1..Len(hidden_states[b]) :
                            attention_mask.dtype # "none" /\ attention_mask.data[b][t] # 0}
            first == IF attended = {} THEN 1
                     ELSE CHOOSE t \in attended : \A u \in attended : t <= u
            pooled_output == Linear(p.dense, hidden_states[b][first])
        IN  Tup([i \in 1..Len(pooled_output) |-> Tanh(pooled_output[i])])])

ContextBERTPoolerAllPositions(p, hidden_states, attention_mask) ==
    Map3(LAMBDA v : LET pooled_output == Linear(p.dense, v)
                    IN  Tup([i \in 1..Len(pooled_output) |-> Tanh(pooled_output[i])]),
         hidden_states)

\* ContextBERTPooler.forward (first-token pooling; attention_mask is unused)
ContextBERTPooler(p, hidden_states, attention_mask) ==
    Tup([b \in 1..Len(hidden_states) |->
        LET hs_pooled == hidden_states[b][1]
            pooled_output == Linear(p.dense, hs_pooled)
        IN  Tup([i \in 1..Len(pooled_output) |-> Tanh(pooled_output[i])])])

\* ------------------------------------------------------- self-attention
\* ContextBERTSelfAttention.transpose_for_scores:
\* (B, T, heads * d) -> view (B, T, heads, d) -> permute (B, heads, T, d)
transpose_for_scores(sa, x) ==
    Tup([b \in 1..Len(x) |-> Tup([h \in 1..sa.num_attention_heads |->
        Tup([t \in 1..Len(x[b]) |-> Tup([d \in 1..sa.attention_head_size |->
            x[b][t][(h - 1) * sa.attention_head_size + d]])])])])

Add4(x, y) == Tup([b \in 1..Len(x) |-> Add3(x[b], y[b])])

\* A zero-centered activation in the place of the sigmoid
LambdaActTanh(v) == Tup([i \in 1..Len(v) |-> Tanh(v[i])])

\* lambda_act = nn.Sigmoid(), on the one-number vector of a (b, h, t)
LambdaAct(v) == Tup([i \in 1..Len(v) |-> Sigmoid(v[i])])

\* (1 - lambda) * mixed + lambda * context_embedded, lambda broadcast over d
Interpolate(lambda, mixed, context) ==
    Tup([b \in 1..Len(mixed) |-> Tup([h \in 1..Len(mixed[b]) |->
        Tup([t \in 1..Len(mixed[b][h]) |-> Tup([d \in 1..Len(mixed[b][h][t]) |->
            FMul(ONE - lambda[b][h][t][1], mixed[b][h][t][d])
              + FMul(lambda[b][h][t][1], context[b][h][t][d])])])])])

\* nn.Softmax(dim=-1) on one row of scores
Softmax(row) ==
    LET m == MaxOf(row)
        e == Tup([j \in 1..Len(row) |-> Exp(row[j] - m)])
        total == Sum(e)
    IN  Tup([j \in 1..Len(row) |-> FDiv(e[j], total)])

\* ContextBERTSelfAttention.forward, in the order of its statements.  Each
\* step takes the record of the locals computed so far and adds its own.
\* Lines 242-256: the projections and the reshaped context
SelfAttentionProject(sa, hidden_states, attention_mask, context_embedded) ==
    [hidden_states |-> hidden_states,
     attention_mask |-> attention_mask,
     context_argument |-> context_embedded,
     context_embedded |-> transpose_for_scores(sa, context_embedded),
     mixed_query_layer |-> transpose_for_scores(sa, Map3(LAMBDA v : Linear(sa.query, v), hidden_states)),
     mixed_key_layer |-> transpose_for_scores(sa, Map3(LAMBDA v : Linear(sa.key, v), hidden_states)),
     mixed_value_layer |-> Map3(LAMBDA v : Linear(sa.value, v), hidden_states)]

\* Lines 258 and 266: context_for_q and context_for_k
SelfAttentionContext(sa, l) ==
    l @@ [context_embedded_q |-> Map4(LAMBDA v : Linear(sa.context_for_q, v), l.context_embedded),
          context_embedded_k |-> Map4(LAMBDA v : Linear(sa.context_for_k, v), l.context_embedded)]

\* Lines 259-261 and 267-269: the sums the gates are computed from
SelfAttentionGateInput(sa, l) ==
    l @@ [lambda_q_sum |-> Add4(Map4(LAMBDA v : LinearNoBias(sa.lambda_q_context_layer, v), l.context_embedded_q),
                                Map4(LAMBDA v : LinearNoBias(sa.lambda_q_query_layer, v), l.mixed_query_layer)),
          lambda_k_sum |-> Add4(Map4(LAMBDA v : LinearNoBias(sa.lambda_k_context_layer, v), l.context_embedded_k),
                                Map4(LAMBDA v : LinearNoBias(sa.lambda_k_key_layer, v), l.mixed_key_layer))]

\* Lines 262 and 270: lambda_act
SelfAttentionGate(l) ==
    l @@ [lambda_q |-> Map4(LambdaAct, l.lambda_q_sum),
          lambda_k |-> Map4(LambdaAct, l.lambda_k_sum)]

\* Lines 263-264 and 271-272: the interpolation
SelfAttentionInterpolate(l) ==
    l @@ [contextualized_query_layer |-> Interpolate(l.lambda_q, l.mixed_query_layer, l.context_embedded_q),
          contextualized_key_layer |-> Interpolate(l.lambda_k, l.mixed_key_layer, l.context_embedded_k)]

\* The value layer gated with the context as the key is
SelfAttentionScoresGatedValue(sa, l) ==
    l @@ [value_layer |-> Interpolate(l.lambda_k, transpose_for_scores(sa, l.mixed_value_layer),
                                      l.context_embedded_k),
          attention_scores |->
              Tup([b \in 1..Len(l.hidden_states) |-> Tup([h \in 1..sa.num_attention_heads |->
                  Tup([i \in 1..Len(l.hidden_states[b]) |-> Tup([j \in 1..Len(l.hidden_states[b]) |->
                      FDiv(Dot(l.contextualized_query_layer[b][h][i], l.contextualized_key_layer[b][h][j]),
                           FSqrt(sa.attention_head_size * ONE))
                        + l.attention_mask[b][1][1][j]])])])])]

\* Lines 275-280: the value layer and the masked, scaled scores
SelfAttentionScores(sa, l) ==
    l @@ [value_layer |-> transpose_for_scores(sa, l.mixed_value_layer),
          attention_scores |->
              Tup([b \in 1..Len(l.hidden_states) |-> Tup([h \in 1..sa.num_attention_heads |->
                  Tup([i \in 1..Len(l.hidden_states[b]) |-> Tup([j \in 1..Len(l.hidden_states[b]) |->
                      FDiv(Dot(l.contextualized_query_layer[b][h][i], l.contextualized_key_layer[b][h][j]),
                           FSqrt(sa.attention_head_size * ONE))
                        + l.attention_mask[b][1][1][j]])])])])]

\* Lines 283-287: softmax and dropout
SelfAttentionProbs(l, prob, training, r) ==
    l @@ [attention_probs |-> Tup([b \in 1..Len(l.attention_scores) |->
              Dropout3(Map3(Softmax, l.attention_scores[b]), prob, training, r)])]

\* Lines 289-293: probs x value, heads merged back into (B, T, all_head_size)
SelfAttentionOutput(sa, l) ==
    l @@ [context_layer |->
             Tup([b \in 1..Len(l.hidden_states) |-> Tup([t \in 1..Len(l.hidden_states[b]) |->
                 Tup([c \in 1..sa.all_head_size |->
                     Dot(l.attention_probs[b][((c - 1) \div sa.attention_head_size) + 1][t],
                         Tup([j \in 1..Len(l.hidden_states[b]) |->
                             l.value_layer[b][((c - 1) \div sa.attention_head_size) + 1][j]
                                          [((c - 1) % sa.attention_head_size) + 1]]))])])])]

\* ContextBERTSelfAttention.forward; the result holds the locals of the call
ContextBERTSelfAttention(sa, hidden_states, attention_mask, context_embedded, prob, training, r) ==
    SelfAttentionOutput(sa,
      SelfAttentionProbs(
        SelfAttentionScores(sa,
          SelfAttentionInterpolate(
            SelfAttentionGate(
              SelfAttentionGateInput(sa,
                SelfAttentionContext(sa,
                  SelfAttentionProject(sa, hidden_states, attention_mask, context_embedded)))))),
        prob, training, r))

\* ContextBERTAttention.forward
ContextBERTAttention(p, input_tensor, attention_mask, context_embedded, cfg, training, r) ==
    LET self_output == ContextBERTSelfAttention(p.self, input_tensor, attention_mask,
                           context_embedded, cfg.attention_probs_dropout_prob, training, r)
        attention_output == BERTSelfOutput(p.output, self_output.context_layer, input_tensor,
                                cfg.hidden_dropout_prob, training, r + 1)
    IN  [self |-> self_output, attention_output |-> attention_output]

\* ContextBERTLayer.forward
ContextBERTLayer(p, hidden_states, attention_mask, context_embedded, cfg, training, r) ==
    LET attention == ContextBERTAttention(p.attention, hidden_states, attention_mask,
                         context_embedded, cfg, training, r)
        intermediate_output == Map3(LAMBDA v : BERTIntermediate(p.intermediate, v),
                                    attention.attention_output)
        layer_output == BERTOutput(p.output, intermediate_output, attention.attention_output,
                            cfg.hidden_dropout_prob, training, r + 2)
    IN  [self |-> attention.self, layer_output |-> layer_output]

\* The context update without its residual
DeepContextHiddenNoResidual(context_layer, context_embeddings, hidden_states) ==
    Map3(LAMBDA v : Linear(context_layer, v), Cat3(context_embeddings, hidden_states))

\* ContextBERTEncoder.forward, lines 374-376: the context handed to one layer
DeepContextHidden(context_layer, context_embeddings, hidden_states) ==
    LET deep_context_hidden == Map3(LAMBDA v : Linear(context_layer, v),
                                    Cat3(context_embeddings, hidden_states))
    IN  Add3(deep_context_hidden, context_embeddings)

\* ----------------------------------------------------------- construction
NumLayers == 2

\* BertConfig: the configurations the model is constructed with
Config(hidden, heads) ==
    [vocab_size |-> 2,
     hidden_size |-> hidden,
     num_hidden_layers |-> NumLayers,
     num_attention_heads |-> heads,
     intermediate_size |-> hidden + 1,
     hidden_dropout_prob |-> ONE \div 4,
     attention_probs_dropout_prob |-> ONE \div 4,
     max_position_embeddings |-> MaxSeqLen,
     type_vocab_size |-> 2]

Configs == {Config(hidden, heads) : hidden \in {2, 3}, heads \in {1, 2}}

\* The random draw a constructor makes for entry (r, c) of the parameter
\* tensor numbered tag, under the generator seed s.
Draw(tag, s, r, c) == (((tag + s + r + 2 * c + r * c) % 5) - 2) * (ONE \div 2)

\* nn.Linear(in, out): weight (out x in) and bias drawn at random, scaled by amp
InitLinear(in, out, tag, s, amp) ==
    [weight |-> Tup([o \in 1..out |-> Tup([i \in 1..in |-> amp * Draw(tag, s, o, i)])]),
     bias |-> Tup([o \in 1..out |-> amp * Draw(tag + 1, s, o, 0)])]

\* nn.Linear(in, 1, bias=False)
InitLinearNoBias(in, tag, s) ==
    [weight |-> <<Tup([i \in 1..in |-> Draw(tag, s, 1, i)])>>]

\* nn.Embedding(num, dim)
InitEmbedding(num, dim, tag, s) ==
    Tup([r \in 1..num |-> Tup([c \in 1..dim |-> Draw(tag, s, r, c)])])

\* BERTLayerNorm.__init__: gamma = ones, beta = zeros
InitLayerNorm(cfg) ==
    [gamma |-> Tup([i \in 1..cfg.hidden_size |-> ONE]),
     beta |-> Tup([i \in 1..cfg.hidden_size |-> 0])]

\* BERTEmbeddings.__init__
InitEmbeddings(cfg, s) ==
    [word_embeddings |-> InitEmbedding(cfg.vocab_size, cfg.hidden_size, 1, s),
     position_embeddings |-> InitEmbedding(cfg.max_position_embeddings, cfg.hidden_size, 2, s),
     token_type_embeddings |-> InitEmbedding(cfg.type_vocab_size, cfg.hidden_size, 3, s),
     LayerNorm |-> InitLayerNorm(cfg)]

\* ContextBERTSelfAttention.__init__, line 203: the condition of the ValueError
HeadsDoNotDivideNever(cfg) == FALSE

HeadsDoNotDivide(cfg) == cfg.hidden_size % cfg.num_attention_heads # 0

\* ContextBERTSelfAttention.__init__, past the check.  The draws of
\* context_for_q and context_for_k are zero under the even seeds.
InitSelfAttention(cfg, s) ==
    LET attention_head_size == cfg.hidden_size \div cfg.num_attention_heads
        all_head_size == cfg.num_attention_heads * attention_head_size
    IN  [num_attention_heads |-> cfg.num_attention_heads,
         attention_head_size |-> attention_head_size,
         all_head_size |-> all_head_size,
         query |-> InitLinear(cfg.hidden_size, all_head_size, 11, s, 1),
         key |-> InitLinear(cfg.hidden_size, all_head_size, 13, s, 1),
         value |-> InitLinear(cfg.hidden_size, all_head_size, 15, s, 1),
         context_for_q |-> InitLinear(attention_head_size, attention_head_size, 17, s, s % 2),
         context_for_k |-> InitLinear(attention_head_size, attention_head_size, 19, s, s % 2),
         lambda_q_context_layer |-> InitLinearNoBias(attention_head_size, 21, s),
         lambda_q_query_layer |-> InitLinearNoBias(attention_head_size, 22, s),
         lambda_k_context_layer |-> InitLinearNoBias(attention_head_size, 23, s),
         lambda_k_key_layer |-> InitLinearNoBias(attention_head_size, 24, s)]

\* ContextBERTLayer.__init__ (with ContextBERTAttention, BERTSelfOutput,
\* BERTIntermediate and BERTOutput)
InitLayer(cfg, s) ==
    [attention |-> [self |-> InitSelfAttention(cfg, s),
                    output |-> [dense |-> InitLinear(cfg.hidden_size, cfg.hidden_size, 31, s, 1),
                                LayerNorm |-> InitLayerNorm(cfg)]],
     intermediate |-> [dense |-> InitLinear(cfg.hidden_size, cfg.intermediate_size, 33, s, 1)],
     output |-> [dense |-> InitLinear(cfg.intermediate_size, cfg.hidden_size, 35, s, 1),
                 LayerNorm |-> InitLayerNorm(cfg)]]

\* The object at reference t itself in the place of a copy
DeepCopyShared(h, t) == [heap |-> h, ref |-> t]

\* copy.deepcopy of the object at reference t: a new object with its own
\* reference, holding a copy of every parameter
DeepCopy(h, t) == [heap |-> Append(h, h[t]), ref |-> Len(h) + 1]

\* nn.ModuleList([copy.deepcopy(template) for _ in range(n)])
RECURSIVE ModuleListOfCopies(_, _, _)
ModuleListOfCopies(h, t, n) ==
    IF n = 0 THEN [heap |-> h, refs |-> <<>>]
    ELSE LET rest == ModuleListOfCopies(h, t, n - 1)
             copy == DeepCopy(rest.heap, t)
         IN  [heap |-> copy.heap, refs |-> Append(rest.refs, copy.ref)]

\* ContextBERTEncoder.__init__: the two templates and their copies
InitEncoder(cfg, s) ==
    LET deep_context_transform_layer == InitLinear(2 * cfg.hidden_size, cfg.hidden_size, 41, s, 1)
        context_layer == ModuleListOfCopies(<<deep_context_transform_layer>>, 1, cfg.num_hidden_layers)
        layer == InitLayer(cfg, s)
        h == Append(context_layer.heap, layer)
        layers == ModuleListOfCopies(h, Len(h), cfg.num_hidden_layers)
    IN  [heap |-> layers.heap,
         encoder |-> [context_layer |-> context_layer.refs, layer |-> layers.refs]]

\* ContextBertModel.__init__, line 399: the number of context ids
context_vocab_size == 2 * 4

\* ContextBertModel.__init__.  (The pooler's attention_gate is read by no
\* forward pass and is left out.)
InitContextBertModel(cfg, s) ==
    LET enc == InitEncoder(cfg, s)
    IN  [heap |-> enc.heap,
         bert |-> [embeddings |-> InitEmbeddings(cfg, s),
                   encoder |-> enc.encoder,
                   pooler |-> [dense |-> InitLinear(cfg.hidden_size, cfg.hidden_size, 51, s, 1)],
                   context_embeddings |-> InitEmbedding(context_vocab_size, cfg.hidden_size, 53, s)]]

\* weight.data.normal_(mean=0.0, std=init_perturbation): the draw for gate
\* weight k of the layer at position l.  The draws are zero under seed 0.
GateDraw(s, l, k, size) == <<Tup([d \in 1..size |-> s * (((l + k + d) % 3) - 1) * ONE])>>

\* CGBertForSequenceClassification.__init__, lines 481-485: the loop over the
\* layers, from position l on
RECURSIVE InitGateWeights(_, _, _, _)
InitGateWeights(h, refs, s, l) ==
    IF l > Len(refs) THEN h
    ELSE LET size == h[refs[l]].attention.self.attention_head_size
             h1 == [h EXCEPT ![refs[l]].attention.self.lambda_q_context_layer.weight = GateDraw(s, l, 1, size)]
             h2 == [h1 EXCEPT ![refs[l]].attention.self.lambda_k_context_layer.weight = GateDraw(s, l, 2, size)]
             h3 == [h2 EXCEPT ![refs[l]].attention.self.lambda_q_query_layer.weight = GateDraw(s, l, 3, size)]
             h4 == [h3 EXCEPT ![refs[l]].attention.self.lambda_k_key_layer.weight = GateDraw(s, l, 4, size)]
         IN  InitGateWeights(h4, refs, s, l + 1)

\* CGBertForSequenceClassification.__init__, lines 453-462: init_weights on an
\* nn.Linear: the weight drawn anew, the bias (if there is one) zeroed
ReinitLinear(p, tag, s) ==
    [k \in DOMAIN p |->
        IF k = "weight"
        THEN Tup([o \in 1..Len(p.weight) |-> Tup([i \in 1..Len(p.weight[o]) |-> Draw(tag, s, o, i)])])
        ELSE Tup([o \in 1..Len(p.bias) |-> 0])]

\* init_weights on an nn.Embedding
ReinitEmbedding(w, tag, s) ==
    Tup([r \in 1..Len(w) |-> Tup([c \in 1..Len(w[r]) |-> Draw(tag, s, r, c)])])

\* init_weights on a BERTLayerNorm: beta and gamma drawn anew
ReinitLayerNorm(p, tag, s) ==
    [gamma |-> Tup([i \in 1..Len(p.gamma) |-> Draw(tag, s, i, 1)]),
     beta |-> Tup([i \in 1..Len(p.beta) |-> Draw(tag + 1, s, i, 0)])]

\* init_weights on the modules of one ContextBERTLayer
ReinitLayer(p, tag, s) ==
    [attention |->
        [self |-> [p.attention.self EXCEPT
                      !.query = ReinitLinear(@, tag, s),
                      !.key = ReinitLinear(@, tag + 1, s),
                      !.value = ReinitLinear(@, tag + 2, s),
                      !.context_for_q = ReinitLinear(@, tag + 3, s),
                      !.context_for_k = ReinitLinear(@, tag + 4, s),
                      !.lambda_q_context_layer = ReinitLinear(@, tag + 5, s),
                      !.lambda_q_query_layer = ReinitLinear(@, tag + 6, s),
                      !.lambda_k_context_layer = ReinitLinear(@, tag + 7, s),
                      !.lambda_k_key_layer = ReinitLinear(@, tag + 8, s)],
         output |-> [dense |-> ReinitLinear(p.attention.output.dense, tag + 9, s),
                     LayerNorm |-> ReinitLayerNorm(p.attention.output.LayerNorm, tag + 10, s)]],
     intermediate |-> [dense |-> ReinitLinear(p.intermediate.dense, tag + 11, s)],
     output |-> [dense |-> ReinitLinear(p.output.dense, tag + 12, s),
                 LayerNorm |-> ReinitLayerNorm(p.output.LayerNorm, tag + 13, s)]]

\* self.apply(init_weights) on the modules of a ModuleList, from position l
\* on: each module is written in place, with draws of its own
RECURSIVE InitWeightsOfList(_, _, _, _)
InitWeightsOfList(h, refs, s, l) ==
    IF l > Len(refs) THEN h
    ELSE InitWeightsOfList(
             [h EXCEPT ![refs[l]] = IF "attention" \in DOMAIN @
                                    THEN ReinitLayer(@, 60 + 3 * l, s)
                                    ELSE ReinitLinear(@, 90 + l, s)],
             refs, s, l + 1)

\* self.apply(init_weights), lines 450-463, on the whole model
InitWeights(m, s) ==
    [heap |-> InitWeightsOfList(InitWeightsOfList(m.heap, m.bert.encoder.context_layer, s, 1),
                                m.bert.encoder.layer, s, 1),
     bert |-> [embeddings |->
                  [word_embeddings |-> ReinitEmbedding(m.bert.embeddings.word_embeddings, 54, s),
                   position_embeddings |-> ReinitEmbedding(m.bert.embeddings.position_embeddings, 55, s),
                   token_type_embeddings |-> ReinitEmbedding(m.bert.embeddings.token_type_embeddings, 56, s),
                   LayerNorm |-> ReinitLayerNorm(m.bert.embeddings.LayerNorm, 57, s)],
               encoder |-> m.bert.encoder,
               pooler |-> [dense |-> ReinitLinear(m.bert.pooler.dense, 59, s)],
               context_embeddings |-> ReinitEmbedding(m.bert.context_embeddings, 58, s)]]

\* The constructor's arguments past the config: the generator seed and
\* init_weight (given as True with one of the seeds)
Constructions == {<<s, FALSE>> : s \in 0..MaxSeed} \cup {<<1, TRUE>>}

\* ------------------------------------------------------------------ inputs
NoTensor == <<>>

NoMask == [dtype |-> "none", data |-> NoTensor]

\* Padding masks of shape (B, T), of dtype long (entries 0, 1) or float
\* (entries 0.0, 1.0): all ones, position 0 masked, or the last position of
\* the first example masked.
MaskData(B, T, pattern, dtype) ==
    Tup([b \in 1..B |-> Tup([t \in 1..T |->
        LET attend == CASE pattern = 0 -> TRUE
                        [] pattern = 1 -> t # 1
                        [] OTHER -> (t # T \/ b # 1)
        IN  IF ~attend THEN 0 ELSE IF dtype = "float" THEN ONE ELSE 1])])

Masks(B, T) == {NoMask} \cup {[dtype |-> "long", data |-> MaskData(B, T, pattern, "long")] :
                                pattern \in 0..2}
                          \cup {[dtype |-> "float", data |-> MaskData(B, T, 2, "float")]}

InputIds(B, T) == Tup([b \in 1..B |-> Tup([t \in 1..T |-> (b + t) % 2])])

TokenTypeIds(B, T) == Tup([b \in 1..B |-> Tup([t \in 1..T |-> (t - 1) % 2])])

\* context ids of shape (B, 1): c for the first example, c + 1 for the next
ContextIds(B, c) == Tup([b \in 1..B |-> <<c + b - 1>>])

NoInput == [input_ids |-> NoTensor, token_type_ids |-> NoTensor,
            attention_mask |-> NoMask, context_ids |-> NoTensor]

\* A call's arguments; the two optional tensors are given or omitted together.
Input(B, T, m, c) ==
    [input_ids |-> InputIds(B, T),
     token_type_ids |-> IF m.dtype = "none" THEN NoTensor ELSE TokenTypeIds(B, T),
     attention_mask |-> m,
     context_ids |-> ContextIds(B, c)]

Inputs == UNION {{Input(B, T, m, c) : m \in Masks(B, T), c \in {-1, 0, context_vocab_size - 1}} :
                    B \in {1, MaxBatch}, T \in {1, MaxSeqLen}}

\* The inputs of the runs in which calls are repeated
RepeatInputs == {Input(MaxBatch, MaxSeqLen, m, 0) :
                    m \in {NoMask,
                           [dtype |-> "long", data |-> MaskData(MaxBatch, MaxSeqLen, 1, "long")],
                           [dtype |-> "float", data |-> MaskData(MaxBatch, MaxSeqLen, 2, "float")]}}

\* ------------------------------------------------------------------- state
VARIABLES
    pc,                       \* "new", "failed", "ready", "encoder", "done", "error"
    error,                    \* the exception that ended the last operation
    config,                   \* the BertConfig given to the constructor
    bert,                     \* the ContextBertModel: its modules and parameters
    heap,                     \* the objects the encoder's ModuleLists refer to
    training,                 \* nn.Module.training
    rng,                      \* the state of the random generator
    input,                    \* the arguments of the forward call
    attention_mask,           \* forward's attention_mask, defaulted
    extended_attention_mask,  \* forward's additive mask
    embedding_output,         \* forward's embedding_output
    context_embeddings,       \* the encoder's context_embeddings argument
    hidden_states,            \* the encoder's hidden_states
    layer_index,              \* the encoder's layer_index
    all_encoder_layers,       \* the encoder's all_encoder_layers
    deep_contexts,            \* history: deep_context_hidden of each iteration
    attn,                     \* the locals of the last self-attention call
    pooled_output,            \* forward's result
    pinned                    \* an earlier eval-mode call: its input and result

vars == <<pc, error, config, bert, heap, training, rng, input, attention_mask,
          extended_attention_mask, embedding_output, context_embeddings,
          hidden_states, layer_index, all_encoder_layers, deep_contexts, attn,
          pooled_output, pinned>>

locals == <<attention_mask, extended_attention_mask, embedding_output,
            context_embeddings, hidden_states, layer_index, all_encoder_layers,
            deep_contexts, attn, pooled_output>>

NoLocals ==
    /\ attention_mask' = NoMask
    /\ extended_attention_mask' = NoTensor
    /\ embedding_output' = NoTensor
    /\ context_embeddings' = NoTensor
    /\ hidden_states' = NoTensor
    /\ layer_index' = 0
    /\ all_encoder_layers' = <<>>
    /\ deep_contexts' = <<>>
    /\ attn' = <<>>
    /\ pooled_output' = NoTensor

Init ==
    /\ pc = "new"
    /\ error = ""
    /\ config = <<>>
    /\ bert = <<>>
    /\ heap = <<>>
    /\ training = TRUE
    /\ rng = 0
    /\ input = NoInput
    /\ attention_mask = NoMask
    /\ extended_attention_mask = NoTensor
    /\ embedding_output = NoTensor
    /\ context_embeddings = NoTensor
    /\ hidden_states = NoTensor
    /\ layer_index = 0
    /\ all_encoder_layers = <<>>
    /\ deep_contexts = <<>>
    /\ attn = <<>>
    /\ pooled_output = NoTensor
    /\ pinned = <<>>

\* CGBertForSequenceClassification.__init__(config, init_weight):
\* ContextBertModel(config), self.apply(init_weights) if init_weight, then the
\* gate-weight loop; a ValueError from ContextBERTSelfAttention leaves no model.
Construct(cfg, s, init_weight) ==
    /\ pc = "new"
    /\ config' = cfg
    /\ IF HeadsDoNotDivide(cfg)
       THEN /\ pc' = "failed"
            /\ error' = "ValueError"
            /\ UNCHANGED <<bert, heap>>
       ELSE LET m == IF init_weight THEN InitWeights(InitContextBertModel(cfg, s), s)
                              ELSE InitContextBertModel(cfg, s)
            IN  /\ pc' = "ready"
                /\ error' = ""
                /\ bert' = m.bert
                /\ heap' = InitGateWeights(m.heap, m.bert.encoder.layer, s, 1)
    /\ UNCHANGED <<training, rng, input, locals, pinned>>

\* nn.Module.train(mode) / eval(), between forward calls
SetTraining(mode) ==
    /\ pc = "ready"
    /\ mode # training
    /\ training' = mode
    /\ UNCHANGED <<pc, error, config, bert, heap, rng, input, locals, pinned>>

\* The generator after n dropout calls
RngAfter(cfg, mode, r, n) == IF mode /\ cfg.hidden_dropout_prob > 0 THEN (r + n) % RngStates ELSE r

\* torch.ones_like(input_ids) and torch.zeros_like(input_ids)
OnesLike(x) == Tup([b \in 1..Len(x) |-> Tup([t \in 1..Len(x[b]) |-> 1])])

ZerosLike(x) == Tup([b \in 1..Len(x) |-> Tup([t \in 1..Len(x[b]) |-> 0])])

\* ContextBertModel.forward, lines 405-406
DefaultMask(x) == IF x.attention_mask.dtype = "none"
                  THEN [dtype |-> "long", data |-> OnesLike(x.input_ids)]
                  ELSE x.attention_mask

\* Tensor.float(): a long n becomes the float n.0
ToFloat(m, n) == IF m.dtype = "long" THEN n * ONE ELSE n

\* ContextBertModel.forward, lines 415-423:
\* (1.0 - mask.unsqueeze(1).unsqueeze(2).float()) * -10000.0
ExtendedAttentionMaskNoComplement(m) ==
    Tup([b \in 1..Len(m.data) |-> <<<<Tup([t \in 1..Len(m.data[b]) |->
        FMul(ToFloat(m, m.data[b][t]), -10000 * ONE)])>>>>])

ExtendedAttentionMask(m) ==
    Tup([b \in 1..Len(m.data) |-> <<<<Tup([t \in 1..Len(m.data[b]) |->
        FMul(ONE - ToFloat(m, m.data[b][t]), -10000 * ONE)])>>>>])

\* ContextBertModel.forward, line 430: self.context_embeddings(context_ids)
\* .squeeze(dim=1), of shape (B, H); nn.Embedding raises IndexError unless
\* every id is in range
ContextEmbeddedWrapping(weight, context_ids) ==
    [error |-> "",
     value |-> Tup([b \in 1..Len(context_ids) |->
                   weight[(context_ids[b][1] % Len(weight)) + 1]])]

ContextEmbedded(weight, context_ids) ==
    IF \A b \in 1..Len(context_ids) : \A j \in 1..Len(context_ids[b]) :
           IndexInRange(weight, context_ids[b][j])
    THEN [error |-> "",
          value |-> LET looked_up == Tup([b \in 1..Len(context_ids) |->
                            Tup([j \in 1..Len(context_ids[b]) |->
                                Embedding(weight, context_ids[b][j])])])
                    IN  Tup([b \in 1..Len(looked_up) |-> looked_up[b][1]])]
    ELSE [error |-> "IndexError", value |-> NoTensor]

\* ContextBertModel.forward, line 431: torch.stack(seq_len * [context_embedded], dim=1)
StackFirstExample(context_embedded, seq_len) ==
    Tup([b \in 1..Len(context_embedded) |-> Tup([t \in 1..seq_len |-> context_embedded[1]])])

StackContext(context_embedded, seq_len) ==
    Tup([b \in 1..Len(context_embedded) |-> Tup([t \in 1..seq_len |-> context_embedded[b]])])

\* ContextBertModel.forward, lines 405-432: up to the call of the encoder
ForwardBegin(x) ==
    /\ pc = "ready"
    /\ input' = x
    /\ LET mask == DefaultMask(x)
           token_type_ids == IF x.token_type_ids = NoTensor THEN ZerosLike(x.input_ids)
                             ELSE x.token_type_ids
           seq_len == Len(x.input_ids[1])
           context_embedded == ContextEmbedded(bert.context_embeddings, x.context_ids)
       IN  IF /\ EmbeddingsInRange(bert.embeddings, x.input_ids, token_type_ids)
              /\ context_embedded.error = ""
           THEN /\ pc' = "encoder"
                /\ error' = ""
                /\ attention_mask' = mask
                /\ extended_attention_mask' = ExtendedAttentionMask(mask)
                /\ embedding_output' = BERTEmbeddings(bert.embeddings, config.hidden_dropout_prob,
                                           x.input_ids, token_type_ids, training, rng)
                /\ hidden_states' = embedding_output'
                /\ context_embeddings' = StackContext(context_embedded.value, seq_len)
                /\ layer_index' = 0
                /\ all_encoder_layers' = <<>>
                /\ deep_contexts' = <<>>
                /\ attn' = <<>>
                /\ pooled_output' = NoTensor
                /\ rng' = RngAfter(config, training, rng, 1)
           ELSE /\ pc' = "error"
                /\ error' = "IndexError"
                /\ NoLocals
                /\ UNCHANGED rng
    /\ UNCHANGED <<config, bert, heap, training, pinned>>

\* The context transform always taken from the first position of the list
ContextLayerAtFirst(encoder, index) == encoder.context_layer[1]

\* ContextBERTEncoder.forward, line 375: self.context_layer[layer_index]
ContextLayerAt(encoder, index) == encoder.context_layer[index + 1]

\* ContextBERTEncoder.forward, line 372: the layer_module of iteration index
LayerModuleAt(encoder, index) == encoder.layer[index + 1]

\* ContextBertModel.forward, line 437: sequence_output = all_encoder_layers[-1]
SequenceOutput(layers) == layers[Len(layers)]

\* ContextBERTEncoder.forward, lines 372-381: one iteration of the loop
EncoderLayer ==
    /\ pc = "encoder"
    /\ layer_index < Len(bert.encoder.layer)
    /\ LET deep_context_hidden ==
               DeepContextHidden(heap[ContextLayerAt(bert.encoder, layer_index)],
                                 context_embeddings, hidden_states)
           out == ContextBERTLayer(heap[LayerModuleAt(bert.encoder, layer_index)], hidden_states,
                                   extended_attention_mask, deep_context_hidden,
                                   config, training, rng)
       IN  /\ hidden_states' = out.layer_output
           /\ all_encoder_layers' = Append(all_encoder_layers, out.layer_output)
           /\ deep_contexts' = Append(deep_contexts, deep_context_hidden)
           /\ attn' = <<out.self>>
    /\ layer_index' = layer_index + 1
    /\ rng' = RngAfter(config, training, rng, 3)
    /\ UNCHANGED <<pc, error, config, bert, heap, training, input, attention_mask,
                   extended_attention_mask, embedding_output, context_embeddings,
                   pooled_output, pinned>>

\* ContextBertModel.forward, lines 437-439: pooling and the return
ForwardReturn ==
    /\ pc = "encoder"
    /\ layer_index = Len(bert.encoder.layer)
    /\ LET sequence_output == SequenceOutput(all_encoder_layers)
       IN  pooled_output' = ContextBERTPooler(bert.pooler, sequence_output, attention_mask)
    /\ pc' = "done"
    /\ UNCHANGED <<error, config, bert, heap, training, rng, input, attention_mask,
                   extended_attention_mask, embedding_output, context_embeddings,
                   hidden_states, layer_index, all_encoder_layers, deep_contexts, attn,
                   pinned>>

\* After the return (or the exception) the call's locals and its result are
\* dropped, and the model is ready for the next call.
Release ==
    /\ pc \in {"done", "error"}
    /\ pc' = "ready"
    /\ error' = ""
    /\ input' = NoInput
    /\ NoLocals
    /\ UNCHANGED <<config, bert, heap, training, rng, pinned>>

\* An observer keeps the input and the result of a call made in eval mode,
\* with the parameters and the generator state of that moment.
Pin ==
    /\ pc = "done"
    /\ ~training
    /\ pinned = <<>>
    /\ pinned' = <<[input |-> input, pooled_output |-> pooled_output,
                    all_encoder_layers |-> all_encoder_layers,
                    config |-> config, bert |-> bert, heap |-> heap, rng |-> rng]>>
    /\ UNCHANGED <<pc, error, config, bert, heap, training, rng, input, locals>>

Next ==
    \/ \E cfg \in Configs, c \in Constructions : Construct(cfg, c[1], c[2])
    \/ \E mode \in BOOLEAN : SetTraining(mode)
    \/ \E x \in Inputs : ForwardBegin(x)
    \/ EncoderLayer
    \/ ForwardReturn
    \/ Release

Spec == Init /\ [][Next]_vars

\* The same program, called repeatedly on a smaller set of inputs and observed
NextRepeat ==
    \/ \E cfg \in Configs, c \in Constructions : Construct(cfg, c[1], c[2])
    \/ \E mode \in BOOLEAN : SetTraining(mode)
    \/ \E x \in RepeatInputs : ForwardBegin(x)
    \/ EncoderLayer
    \/ ForwardReturn
    \/ Release
    \/ Pin

SpecRepeat == Init /\ [][NextRepeat]_vars

\* ------------------------------------------------------------- properties
Batch == Len(input.input_ids)

SeqLen == Len(input.input_ids[1])

InForward == pc \in {"encoder", "done"}

IsShape2(x, n1, n2) ==
    /\ Len(x) = n1
    /\ \A a \in 1..n1 : Len(x[a]) = n2

IsShape3(x, n1, n2, n3) ==
    /\ Len(x) = n1
    /\ \A a \in 1..n1 : IsShape2(x[a], n2, n3)

IsShape4(x, n1, n2, n3, n4) ==
    /\ Len(x) = n1
    /\ \A a \in 1..n1 : IsShape3(x[a], n2, n3, n4)

\* The parameters of the layer the encoder ran last
LastLayer == heap[bert.encoder.layer[layer_index]]

\* hidden_state_{i-1}: the embedding output, or the output of layer i-1
HiddenBefore(i) == IF i = 1 THEN embedding_output ELSE all_encoder_layers[i - 1]

\* Linear_i(concat(ctx, hidden_state_{i-1})) + ctx
ContextUpdate(i, ctx) ==
    Add3(Map3(LAMBDA v : Linear(heap[bert.encoder.context_layer[i]], v),
              Cat3(ctx, HiddenBefore(i))),
         ctx)

\* C1 as stated: the context handed to layer i is computed from the context
\* handed to layer i-1 (the broadcast context embedding for i = 1) and the
\* output of layer i-1.
C1_ContextFromPreviousContext ==
    \A i \in 1..Len(deep_contexts) :
        deep_contexts[i] = ContextUpdate(i, IF i = 1 THEN context_embeddings
                                            ELSE deep_contexts[i - 1])

\* C1 as amended: for every layer i the context handed to layer i's attention
\* is Linear_i(concat(context_0, hidden_state_{i-1})) + context_0, with
\* context_0 the broadcast context embedding, which no layer replaces.
C1_ContextFromInitialContext ==
    /\ \A i \in 1..Len(deep_contexts) :
           deep_contexts[i] = ContextUpdate(i, context_embeddings)
    /\ Len(attn) = 1 =>
           /\ attn[1].context_argument = deep_contexts[layer_index]
           /\ attn[1].hidden_states = HiddenBefore(layer_index)

\* A second layer has run, and its context differs from what the context of
\* the first layer would have given.
C1_Witness ==
    /\ Len(deep_contexts) >= 2
    /\ deep_contexts[1] # context_embeddings
    /\ deep_contexts[2] # ContextUpdate(2, deep_contexts[1])

AllZero2(w) == \A r \in 1..Len(w) : \A c \in 1..Len(w[r]) : w[r][c] = 0

AllZero1(v) == \A i \in 1..Len(v) : v[i] = 0

ZeroGatesAndContext(sa) ==
    /\ AllZero2(sa.lambda_q_context_layer.weight)
    /\ AllZero2(sa.lambda_q_query_layer.weight)
    /\ AllZero2(sa.lambda_k_context_layer.weight)
    /\ AllZero2(sa.lambda_k_key_layer.weight)
    /\ AllZero2(sa.context_for_q.weight) /\ AllZero1(sa.context_for_q.bias)
    /\ AllZero2(sa.context_for_k.weight) /\ AllZero1(sa.context_for_k.bias)

\* The scores of vanilla self-attention on the projected query and key
VanillaScores(sa, l) ==
    Tup([b \in 1..Len(l.hidden_states) |-> Tup([h \in 1..sa.num_attention_heads |->
        Tup([i \in 1..Len(l.hidden_states[b]) |-> Tup([j \in 1..Len(l.hidden_states[b]) |->
            FDiv(Dot(l.mixed_query_layer[b][h][i], l.mixed_key_layer[b][h][j]),
                 FSqrt(sa.attention_head_size * ONE))
              + l.attention_mask[b][1][1][j]])])])])

\* C2: with the four gate weights zero and context_for_q, context_for_k zero,
\* the contextualized query and key equal the projected query and key, and
\* the attention scores are those of vanilla self-attention.
C2_ZeroGatesGiveVanillaAttention ==
    (Len(attn) = 1 /\ ZeroGatesAndContext(LastLayer.attention.self)) =>
        /\ attn[1].contextualized_query_layer = attn[1].mixed_query_layer
        /\ attn[1].contextualized_key_layer = attn[1].mixed_key_layer
        /\ attn[1].attention_scores = VanillaScores(LastLayer.attention.self, attn[1])

\* hidden_states with every position but 0 overwritten by the number k
OtherPositions(h, k) ==
    Tup([b \in 1..Len(h) |-> Tup([t \in 1..Len(h[b]) |->
        IF t = 1 THEN h[b][1] ELSE Tup([i \in 1..Len(h[b][t]) |-> k])])])

\* C3: the pooled vector is tanh(dense(hidden_states[:, 0])), whatever the
\* attention mask (one that masks position 0 included) and whatever the
\* hidden states at the positions >= 1.
C3_PoolerReadsOnlyFirstPosition ==
    pc = "done" =>
        LET sequence_output == all_encoder_layers[Len(all_encoder_layers)]
        IN  /\ pooled_output = Tup([b \in 1..Batch |->
                   LET y == Linear(bert.pooler.dense, sequence_output[b][1])
                   IN  Tup([i \in 1..Len(y) |-> Tanh(y[i])])])
            /\ \A m \in Masks(Batch, SeqLen) : \A k \in {-ONE, 0, ONE} :
                   /\ ContextBERTPooler(bert.pooler, sequence_output, m) = pooled_output
                   /\ ContextBERTPooler(bert.pooler, OtherPositions(sequence_output, k), m)
                          = pooled_output

\* A call has returned whose mask masks position 0 and whose sequence has
\* further positions that differ from position 0.
C3_Witness ==
    /\ pc = "done"
    /\ SeqLen >= 2
    /\ attention_mask.data[1][1] = 0
    /\ all_encoder_layers[Len(all_encoder_layers)][1][2]
           # all_encoder_layers[Len(all_encoder_layers)][1][1]

\* C4: the pooled tensor has shape (batch, hidden_size); every hidden state
\* and context tensor of the layer loop has shape (batch, seq_len, hidden_size).
C4_Shapes ==
    /\ InForward =>
           /\ IsShape3(embedding_output, Batch, SeqLen, config.hidden_size)
           /\ IsShape3(context_embeddings, Batch, SeqLen, config.hidden_size)
           /\ IsShape3(hidden_states, Batch, SeqLen, config.hidden_size)
           /\ \A i \in 1..Len(all_encoder_layers) :
                  IsShape3(all_encoder_layers[i], Batch, SeqLen, config.hidden_size)
           /\ \A i \in 1..Len(deep_contexts) :
                  IsShape3(deep_contexts[i], Batch, SeqLen, config.hidden_size)
           /\ Len(attn) = 1 =>
                  IsShape3(attn[1].context_layer, Batch, SeqLen, config.hidden_size)
    /\ pc = "done" => IsShape2(pooled_output, Batch, config.hidden_size)

C4_Witness ==
    /\ pc = "done"
    /\ Batch = MaxBatch
    /\ SeqLen = MaxSeqLen
    /\ config.num_attention_heads > 1

\* The padding mask of the call: entry (b, t) is 1, or the mask is omitted
Attends(b, t) ==
    \/ input.attention_mask.dtype = "none"
    \/ input.attention_mask.dtype = "long" /\ input.attention_mask.data[b][t] = 1
    \/ input.attention_mask.dtype = "float" /\ input.attention_mask.data[b][t] = ONE

\* C5: the additive mask has shape (batch, 1, 1, seq_len), is 0 where the
\* padding mask is 1 and -10000 where it is 0, and every layer is handed
\* that same mask.
C5_AdditiveMask ==
    InForward =>
        /\ IsShape4(extended_attention_mask, Batch, 1, 1, SeqLen)
        /\ \A b \in 1..Batch : \A t \in 1..SeqLen :
               extended_attention_mask[b][1][1][t]
                   = IF Attends(b, t) THEN 0 ELSE -10000 * ONE
        /\ Len(attn) = 1 => attn[1].attention_mask = extended_attention_mask

\* The last layer has run under a float mask with a padded and an attended entry.
C5_Witness ==
    /\ pc = "done"
    /\ input.attention_mask.dtype = "float"
    /\ \E b \in 1..Batch : \E t \in 1..SeqLen : extended_attention_mask[b][1][1][t] = -10000 * ONE
    /\ \E b \in 1..Batch : \E t \in 1..SeqLen : extended_attention_mask[b][1][1][t] = 0

\* C6: a config whose hidden_size is not a multiple of num_attention_heads
\* makes the constructor fail with ValueError and leaves no model; otherwise
\* every layer has attention_head_size = hidden_size / num_attention_heads
\* and all_head_size = hidden_size.
C6_HeadsMustDivideHiddenSize ==
    pc # "new" =>
        IF config.hidden_size % config.num_attention_heads # 0
        THEN pc = "failed" /\ error = "ValueError" /\ heap = <<>>
        ELSE /\ pc # "failed"
             /\ Len(bert.encoder.layer) = config.num_hidden_layers
             /\ \A i \in 1..Len(bert.encoder.layer) :
                    LET sa == heap[bert.encoder.layer[i]].attention.self
                    IN  /\ sa.attention_head_size * config.num_attention_heads = config.hidden_size
                        /\ sa.all_head_size = config.hidden_size

C6_Witness ==
    /\ pc = "failed"
    /\ config.hidden_size % config.num_attention_heads # 0

ContextIdOutOfRange == \E b \in 1..Len(input.context_ids) : input.context_ids[b][1] \notin 0..7

\* C7: a forward pass with a context id outside 0..7 ends in an IndexError
\* and returns nothing; no context embedding is produced for it.
C7_ContextIdOutOfRangeIsFatal ==
    ContextIdOutOfRange =>
        /\ pc = "error"
        /\ error = "IndexError"
        /\ pooled_output = NoTensor
        /\ context_embeddings = NoTensor

\* A batch with one id in range and one out of range has been rejected.
C7_Witness ==
    /\ pc = "error"
    /\ ContextIdOutOfRange
    /\ \E b \in 1..Len(input.context_ids) : input.context_ids[b][1] \in 0..7

\* C8: with dropout disabled, a call with the input of an earlier call
\* returns the result of that call, whatever calls were made in between; the
\* calls leave the parameters and the config as they were.
C8_DeterministicAndStateless ==
    Len(pinned) = 1 =>
        /\ config = pinned[1].config
        /\ bert = pinned[1].bert
        /\ heap = pinned[1].heap
        /\ (pc = "done" /\ ~training /\ input = pinned[1].input) =>
               /\ pooled_output = pinned[1].pooled_output
               /\ all_encoder_layers = pinned[1].all_encoder_layers

\* The pinned input has been given again after a training-mode call moved
\* the generator.
C8_Witness ==
    /\ Len(pinned) = 1
    /\ pc = "done"
    /\ ~training
    /\ input = pinned[1].input
    /\ rng # pinned[1].rng

\* C9: the initial context state has shape (batch, seq_len, hidden_size), and
\* at every position of example b it is the context embedding row of
\* context_ids[b].
C9_InitialContextIsBroadcast ==
    InForward =>
        /\ IsShape3(context_embeddings, Batch, SeqLen, config.hidden_size)
        /\ \A b \in 1..Batch : \A t \in 1..SeqLen :
               context_embeddings[b][t] = bert.context_embeddings[input.context_ids[b][1] + 1]

C9_Witness ==
    /\ InForward
    /\ Batch >= 2
    /\ SeqLen >= 2
    /\ context_embeddings[1][1] # context_embeddings[2][1]

GatesOf(l) == {l.lambda_q, l.lambda_k}

\* C10 as stated: both gates are one number per (batch, head, position),
\* strictly between 0 and 1.
C10_GatesStrictlyInsideUnitInterval ==
    Len(attn) = 1 =>
        \A g \in GatesOf(attn[1]) :
            /\ IsShape4(g, Batch, config.num_attention_heads, SeqLen, 1)
            /\ \A b \in 1..Batch : \A h \in 1..config.num_attention_heads : \A t \in 1..SeqLen :
                   0 < g[b][h][t][1] /\ g[b][h][t][1] < ONE

GateInClosedUnit(g, sum) ==
    /\ IsShape4(g, Batch, config.num_attention_heads, SeqLen, 1)
    /\ \A b \in 1..Batch : \A h \in 1..config.num_attention_heads : \A t \in 1..SeqLen :
           /\ 0 <= g[b][h][t][1] /\ g[b][h][t][1] <= ONE
           /\ g[b][h][t][1] = ONE => sum[b][h][t][1] >= 2 * ONE
           /\ g[b][h][t][1] = 0 => sum[b][h][t][1] <= -(2 * ONE)
           /\ sum[b][h][t][1] = 0 => 2 * g[b][h][t][1] = ONE

\* C10 as amended: both gates are one number per (batch, head, position) in
\* the closed interval [0, 1]; a gate is exactly 1 or exactly 0 only where
\* the rounded sigmoid saturates, at a pre-activation of large magnitude.
C10_GatesInsideClosedUnitInterval ==
    Len(attn) = 1 =>
        /\ GateInClosedUnit(attn[1].lambda_q, attn[1].lambda_q_sum)
        /\ GateInClosedUnit(attn[1].lambda_k, attn[1].lambda_k_sum)

\* A gate has saturated at exactly 1, and another gate lies strictly inside.
C10_Witness ==
    /\ Len(attn) = 1
    /\ \E b \in 1..Batch : \E h \in 1..config.num_attention_heads : \E t \in 1..SeqLen :
           attn[1].lambda_q[b][h][t][1] = ONE \/ attn[1].lambda_k[b][h][t][1] = ONE
    /\ \E b \in 1..Batch : \E h \in 1..config.num_attention_heads : \E t \in 1..SeqLen :
           attn[1].lambda_q[b][h][t][1] \in 1..(ONE - 1)

\* The self-attention parameters with every gate weight and both context
\* transforms replaced by other values
OtherGatesAndContext(sa) ==
    LET d == sa.attention_head_size
        w(k) == <<Tup([i \in 1..d |-> ((i + k) % 2) * ONE - ONE \div 2])>>
    IN  [sa EXCEPT !.lambda_q_context_layer.weight = w(1),
                   !.lambda_q_query_layer.weight = w(2),
                   !.lambda_k_context_layer.weight = w(3),
                   !.lambda_k_key_layer.weight = w(4),
                   !.context_for_q = InitLinear(d, d, 18, 1, 2),
                   !.context_for_k = InitLinear(d, d, 20, 1, 2)]

\* Another context input of the same shape
OtherContext(x) ==
    Tup([b \in 1..Len(x) |-> Tup([t \in 1..Len(x[b]) |->
        Tup([c \in 1..Len(x[b][t]) |-> ONE - x[b][t][c] + c])])])

\* The locals of the self-attention call on the same hidden_states and mask,
\* made with other gate and context weights on another context input, up to
\* its scores
OtherAttention(sa, l) ==
    SelfAttentionScores(OtherGatesAndContext(sa),
      SelfAttentionInterpolate(
        SelfAttentionGate(
          SelfAttentionGateInput(OtherGatesAndContext(sa),
            SelfAttentionContext(OtherGatesAndContext(sa),
              SelfAttentionProject(OtherGatesAndContext(sa), l.hidden_states,
                                   l.attention_mask, OtherContext(l.context_argument)))))))

\* The output of that call when its attention probabilities are those of l
OtherOutput(sa, l) ==
    SelfAttentionOutput(OtherGatesAndContext(sa),
                        OtherAttention(sa, l) @@ [attention_probs |-> l.attention_probs])

\* C11: the tensor multiplied by the attention probabilities is the reshaped
\* value projection of hidden_states, and with the attention probabilities
\* held fixed the output of the self-attention is the same under another
\* context input and other gate, context_for_q and context_for_k weights.
C11_ValueIsNotGated ==
    Len(attn) = 1 =>
        LET sa == LastLayer.attention.self
            l == attn[1]
        IN  /\ l.value_layer =
                   transpose_for_scores(sa, Map3(LAMBDA v : Linear(sa.value, v), l.hidden_states))
            /\ OtherOutput(sa, l).value_layer = l.value_layer
            /\ OtherOutput(sa, l).context_layer = l.context_layer

\* The other context and weights change the contextualized query and key
\* of a call whose output is not zero.
C11_Witness ==
    /\ Len(attn) = 1
    /\ SeqLen >= 2
    /\ OtherAttention(LastLayer.attention.self, attn[1]).contextualized_query_layer
           # attn[1].contextualized_query_layer
    /\ OtherAttention(LastLayer.attention.self, attn[1]).contextualized_key_layer
           # attn[1].contextualized_key_layer
    /\ OtherAttention(LastLayer.attention.self, attn[1]).attention_scores
           # attn[1].attention_scores
    /\ \E b \in 1..Batch : \E t \in 1..SeqLen : \E c \in 1..config.hidden_size :
           attn[1].context_layer[b][t][c] # 0

\* The generator state at the start of iteration k of the encoder's loop
RngBefore(k) ==
    IF training /\ config.hidden_dropout_prob > 0
    THEN (rng + (RngStates - 1) * 3 * (layer_index - k + 1)) % RngStates
    ELSE rng

\* The context handed to a layer when the transform at position i of
\* context_layer is applied to hidden_state_{k-1}
ContextUpdateWith(i, k) ==
    Add3(Map3(LAMBDA v : Linear(heap[bert.encoder.context_layer[i]], v),
              Cat3(context_embeddings, HiddenBefore(k))),
         context_embeddings)

\* The output of the module at position j of layer, run on hidden_state_{k-1}
\* with the context made by the transform at position i
LayerOutputWith(j, i, k) ==
    ContextBERTLayer(heap[bert.encoder.layer[j]], HiddenBefore(k), extended_attention_mask,
                     ContextUpdateWith(i, k), config, training, RngBefore(k)).layer_output

\* C12: the encoder runs the layers in index order: after layer_index
\* iterations the list holds layer_index entries, its k-th entry is the
\* output of layer[k] on the output of layer k-1 (the embedding output for
\* k = 1) with the context made by context_layer[k]; the list returned has
\* exactly num_hidden_layers entries, and the pooled output is the pooler's
\* result on the last of them.
C12_LayersRunInIndexOrder ==
    InForward =>
        /\ Len(bert.encoder.layer) = config.num_hidden_layers
        /\ Len(bert.encoder.context_layer) = config.num_hidden_layers
        /\ layer_index = Len(all_encoder_layers)
        /\ layer_index <= config.num_hidden_layers
        /\ \A k \in 1..Len(all_encoder_layers) : all_encoder_layers[k] = LayerOutputWith(k, k, k)
        /\ layer_index >= 1 => hidden_states = all_encoder_layers[layer_index]
        /\ pc = "done" =>
               /\ Len(all_encoder_layers) = config.num_hidden_layers
               /\ pooled_output = ContextBERTPooler(bert.pooler,
                                      all_encoder_layers[config.num_hidden_layers], attention_mask)

\* A call has returned from a model whose layers differ: the second layer
\* run with the first context transform, or the first layer module in the
\* place of the second, or the pooler on the first entry of the list, would
\* each have given another result.
C12_Witness ==
    /\ pc = "done"
    /\ Len(all_encoder_layers) >= 2
    /\ LayerOutputWith(2, 1, 2) # all_encoder_layers[2]
    /\ LayerOutputWith(1, 2, 2) # all_encoder_layers[2]
    /\ ContextBERTPooler(bert.pooler, all_encoder_layers[1], attention_mask) # pooled_output

\* The gate weights of a layer
GateWeights(p) ==
    <<p.attention.self.lambda_q_context_layer.weight,
      p.attention.self.lambda_k_context_layer.weight,
      p.attention.self.lambda_q_query_layer.weight,
      p.attention.self.lambda_k_key_layer.weight>>

\* The objects of the heap h that the encoder's two lists refer to, but for
\* the layer and the context transform at position i
OthersUnchanged(h, i) ==
    \A j \in 1..Len(bert.encoder.layer) :
        j # i => /\ h[bert.encoder.layer[j]] = heap[bert.encoder.layer[j]]
                 /\ h[bert.encoder.context_layer[j]] = heap[bert.encoder.context_layer[j]]

\* C13: after construction the two lists of the encoder hold one object per
\* layer, none of them twice; the gate-weight loop has left in each layer the
\* draws made for that layer; and an in-place write of the gate weights, of
\* every parameter of the layer, or of the context transform of layer i
\* leaves the parameters of every other layer as they were.
C13_NoParameterSharedBetweenLayers ==
    pc \notin {"new", "failed"} =>
        LET layer == bert.encoder.layer
            context_layer == bert.encoder.context_layer
            N == config.num_hidden_layers
        IN  /\ Len(layer) = N /\ Len(context_layer) = N
            /\ \A i, j \in 1..N : /\ i # j => layer[i] # layer[j] /\ context_layer[i] # context_layer[j]
                                  /\ layer[i] # context_layer[j]
            /\ \E c \in Constructions : \A l \in 1..N :
                   GateWeights(heap[layer[l]]) =
                       <<GateDraw(c[1], l, 1, heap[layer[l]].attention.self.attention_head_size),
                         GateDraw(c[1], l, 2, heap[layer[l]].attention.self.attention_head_size),
                         GateDraw(c[1], l, 3, heap[layer[l]].attention.self.attention_head_size),
                         GateDraw(c[1], l, 4, heap[layer[l]].attention.self.attention_head_size)>>
            /\ \A i \in 1..N : \A s \in 0..MaxSeed :
                   /\ OthersUnchanged(InitGateWeights(heap, <<layer[i]>>, s, 1), i)
                   /\ InitGateWeights(heap, <<layer[i]>>, s, 1)[context_layer[i]] = heap[context_layer[i]]
                   /\ OthersUnchanged(InitWeightsOfList(heap, <<layer[i]>>, s, 1), i)
                   /\ InitWeightsOfList(heap, <<layer[i]>>, s, 1)[context_layer[i]] = heap[context_layer[i]]
                   /\ OthersUnchanged(InitWeightsOfList(heap, <<context_layer[i]>>, s, 1), i)
                   /\ InitWeightsOfList(heap, <<context_layer[i]>>, s, 1)[layer[i]] = heap[layer[i]]

\* A model of two or more layers has been constructed whose layers hold
\* different gate weights and different context transforms, and a write to
\* the first layer, or to its context transform, changes it.
C13_Witness ==
    /\ pc = "ready"
    /\ config.num_hidden_layers >= 2
    /\ GateWeights(heap[bert.encoder.layer[1]]) # GateWeights(heap[bert.encoder.layer[2]])
    /\ heap[bert.encoder.context_layer[1]] # heap[bert.encoder.context_layer[2]]
    /\ InitGateWeights(heap, <<bert.encoder.layer[1]>>, 0, 1)[bert.encoder.layer[1]]
           # heap[bert.encoder.layer[1]]
    /\ InitWeightsOfList(heap, <<bert.encoder.context_layer[1]>>, 0, 1)[bert.encoder.context_layer[1]]
           # heap[bert.encoder.context_layer[1]]

====
